---- MODULE Spec2Model ----
(***************************************************************************)
(* A model of gltf_ktxer: the sentinel index (gltf.rs), the resolution of  *)
(* a buffer's bytes (GltfBuffer::dump_data), the slicing of buffer views   *)
(* (GltfBufferView::slice_from) and the packing of all buffer views into   *)
(* one 4-byte aligned buffer (lib.rs: pack_buffer_views and                *)
(* pack_buffers_together).                                                 *)
(*                                                                         *)
(* Strings are sequences of ASCII codes, byte strings are sequences of     *)
(* numbers in 0..255, Option<T> is a sequence of length 0 or 1, and a      *)
(* Result is a record whose tag is      "Ok", "Err" or "Panic" (a      *)
(* panic unwinds through every caller: nothing is returned).               *)
(*                                                                         *)
(* Specifications: SpecIndex (idx_within), SpecBuffer (dump_data of one    *)
(* buffer), SpecPack (pack_buffer_views over a sequence of items), SpecDoc *)
(* (pack_buffers_together over a document and a blob map), SpecSlice       *)
(* (slice_from of one view), SpecImage (dump_data of one image) and        *)
(* SpecJobs (get_reencode_jobs over a document and a blob map).            *)
(***************************************************************************)
EXTENDS Integers, Sequences, FiniteSets

VARIABLES
    pc,                 \* position of the operation under analysis
    result,             \* its return value, once it has returned
    idx,                \* SpecIndex: the raw value of a GltfIndex
    list_name,          \* SpecIndex: the name of the list it indexes
    list_len,           \* SpecIndex: the length of that list
    buffer,             \* SpecBuffer: the GltfBuffer dump_data is called on
    buf_idx,            \* SpecBuffer: its position in the document
    binaries,           \* SpecBuffer, SpecDoc: the blob map (Input.binaries)
    items,              \* SpecPack: the items the iterator yields
    pos,                \* SpecPack, SpecDoc: how many elements were consumed
    new_buffer_views,   \* pack_buffer_views: the rewritten views so far
    new_buffer,         \* pack_buffer_views: the packed bytes so far
    gltf_json,          \* SpecDoc: the document behind Input.gltf_json
    doc0,               \* SpecDoc: the document as it was given (history)
    buffer_datas,       \* SpecDoc: the buffers resolved so far
    trace,              \* SpecDoc: the result of every element resolved (history)
    view,               \* SpecSlice: the GltfBufferView slice_from is called on
    image,              \* SpecImage: the GltfImage dump_data is called on
    textures,           \* get_reencode_jobs: the textures, rewritten in place
    new_images,         \* get_reencode_jobs: the jobs recorded so far
    old_image_idx_to_new_image_idx  \* get_reencode_jobs: original index -> job index

vars == <<pc, result, idx, list_name, list_len, buffer, buf_idx, binaries,
          items, pos, new_buffer_views, new_buffer, gltf_json, doc0,
          buffer_datas, trace, view, image, textures, new_images,
          old_image_idx_to_new_image_idx>>

idxVars  == <<idx, list_name, list_len>>
bufVars  == <<buffer, buf_idx>>
packVars == <<items, new_buffer_views, new_buffer>>
docVars  == <<gltf_json, doc0, buffer_datas, trace>>
objVars  == <<view, image>>
jobVars  == <<textures, new_images, old_image_idx_to_new_image_idx>>

----------------------------------------------------------------------------
(* Bounds of the model.                                                    *)

\* usize::MAX, scaled down: usize arithmetic is modulo UsizeMax + 1.
UsizeMax == 15
\* The longest list an index is resolved against in SpecIndex.
MaxListLen == 4
\* The largest byteLength a buffer declares in SpecBuffer.
MaxByteLength == 4
\* The largest document position of the buffer in SpecBuffer.
MaxBufIdx == 2
\* The most items the iterator of SpecPack yields.
MaxItems == 3
\* The most textures of a document of SpecJobs.
MaxTextures == 2
\* The longest slice of an item of SpecPack.
MaxSliceLen == 5
\* The most buffers and the most buffer views of a document of SpecDoc.
MaxBuffers == 2
MaxViews == 2

----------------------------------------------------------------------------
(* Option, Result and the errors of error.rs.                              *)

None == <<>>
Some(x) == <<x>>

\* The payload's field is named after the tag, so that two results with
\* different tags are different records whatever they carry.
Ok(v) == [tag |-> "Ok", ok |-> v]
Err(e) == [tag |-> "Err", err |-> e]
Panic(msg) == [tag |-> "Panic", msg |-> msg]
NoResult == [tag |-> "None"]

BufferHadNoUri(i) == [kind |-> "BufferHadNoUri", idx |-> i]
BufferUriMissingData(name) == [kind |-> "BufferUriMissingData", name |-> name]
BufferUriBadBase64 == [kind |-> "BufferUriBadBase64"]
BufferNotLongEnough(expected, got) ==
    [kind |-> "BufferNotLongEnough", expected_bytes |-> expected, got_bytes |-> got]
BufferViewSizeOOB(len, off, vlen) ==
    [kind |-> "BufferViewSizeOOB", buffer_len |-> len,
     buffer_view_off |-> off, buffer_view_len |-> vlen]
IdxNotSet(name) == [kind |-> "IdxNotSet", list_name |-> name]
IdxOOB(name, i, num) == [kind |-> "IdxOOB", list_name |-> name, idx |-> i, num |-> num]

Min(a, b) == IF a < b THEN a ELSE b

\* usize subtraction in a build without overflow checks.
WrappingSub(a, b) == (a - b) % (UsizeMax + 1)

----------------------------------------------------------------------------
(* GltfIndex (gltf.rs).                                                    *)

GltfIndex_UNDEFINED == UsizeMax
GltfIndex_of(x) == x
GltfIndex_default == GltfIndex_of(UsizeMax)
is_undefined(self) == self = UsizeMax
is_defined(self) == ~is_undefined(self)

\* A plausible slip: the bound test written with > instead of >=.
idx_within_offByOne(self, name, len) ==
    IF is_undefined(self) THEN Ok(None)
    ELSE IF self > len THEN Err(IdxOOB(name, self, len))
    ELSE Ok(Some(self))

idx_within(self, name, len) ==
    IF is_undefined(self) THEN Ok(None)
    ELSE IF self >= len THEN Err(IdxOOB(name, self, len))
    ELSE Ok(Some(self))

\* GltfList::gltf_index for Vec<T>: the position is returned in place of &self[idx].
gltf_index(len, i, name) == idx_within(i, name, len)

gltf_index_required(len, i, name) ==
    LET r == gltf_index(len, i, name) IN
    IF r.tag = "Err" THEN r
    ELSE IF r.ok = None THEN Err(IdxNotSet(name))
    ELSE Ok(r.ok[1])

----------------------------------------------------------------------------
(* Strings of the data-URI grammar, as ASCII codes.                        *)

\* "data:"
StrData == <<100, 97, 116, 97, 58>>
\* "application/octet-stream"
StrOctetStream == <<97, 112, 112, 108, 105, 99, 97, 116, 105, 111, 110, 47,
                    111, 99, 116, 101, 116, 45, 115, 116, 114, 101, 97, 109>>
\* "application/gltf-buffer"
StrGltfBuffer == <<97, 112, 112, 108, 105, 99, 97, 116, 105, 111, 110, 47,
                   103, 108, 116, 102, 45, 98, 117, 102, 102, 101, 114>>
\* ";base64,"
StrBase64Comma == <<59, 98, 97, 115, 101, 54, 52, 44>>
\* ","
StrComma == <<44>>

\* str::strip_prefix
strip_prefix(s, p) ==
    IF Len(s) >= Len(p) /\ SubSeq(s, 1, Len(p)) = p
    THEN Some(SubSeq(s, Len(p) + 1, Len(s)))
    ELSE None

base64str_from_data_uri(uri) ==
    LET a == strip_prefix(uri, StrData) IN
    IF a = None THEN None
    ELSE LET b == strip_prefix(a[1], StrOctetStream)
             c == IF b # None THEN b ELSE strip_prefix(a[1], StrGltfBuffer)
         IN  IF c = None THEN None
             ELSE LET d == strip_prefix(c[1], StrBase64Comma) IN
                  IF d # None THEN d ELSE strip_prefix(c[1], StrComma)

----------------------------------------------------------------------------
(* BASE64_STANDARD.decode: the standard alphabet, canonical padding        *)
(* required, no non-zero trailing bits.                                    *)

IsBase64Symbol(c) ==
    \/ c \in 65..90 \/ c \in 97..122 \/ c \in 48..57 \/ c = 43 \/ c = 47

Sextet(c) ==
    IF c \in 65..90 THEN c - 65
    ELSE IF c \in 97..122 THEN c - 71
    ELSE IF c \in 48..57 THEN c + 4
    ELSE IF c = 43 THEN 62
    ELSE 63

\* The trailing '=' signs of s (ASCII 61).
RECURSIVE TrailingPads(_)
TrailingPads(s) ==
    IF s # <<>> /\ s[Len(s)] = 61 THEN 1 + TrailingPads(SubSeq(s, 1, Len(s) - 1)) ELSE 0

\* The bytes of a run of symbols: 4 symbols give 3 bytes, a last group of
\* 3 symbols gives 2 and a last group of 2 symbols gives 1.
RECURSIVE DecodeSymbols(_)
DecodeSymbols(s) ==
    IF Len(s) < 2 THEN <<>>
    ELSE LET s1 == Sextet(s[1])
             s2 == Sextet(s[2])
             b1 == s1 * 4 + (s2 \div 16)
         IN  IF Len(s) = 2 THEN <<b1>>
             ELSE LET s3 == Sextet(s[3])
                      b2 == (s2 % 16) * 16 + (s3 \div 4)
                  IN  IF Len(s) = 3 THEN <<b1, b2>>
                      ELSE <<b1, b2, (s3 % 4) * 64 + Sextet(s[4])>>
                               \o DecodeSymbols(SubSeq(s, 5, Len(s)))

Base64Decode(s) ==
    LET npad == TrailingPads(s)
        body == SubSeq(s, 1, Len(s) - npad)
        last == IF body = <<>> THEN 0 ELSE Sextet(body[Len(body)])
    IN  IF \/ Len(s) % 4 # 0
           \/ npad > 2
           \/ \E i \in 1..Len(body) : ~IsBase64Symbol(body[i])
           \/ (npad = 2 /\ last % 16 # 0)
           \/ (npad = 1 /\ last % 4 # 0)
        THEN Err(BufferUriBadBase64)
        ELSE Ok(DecodeSymbols(body))

----------------------------------------------------------------------------
(* U8VecOrSlice (gltf.rs): both variants are modelled by their bytes.      *)

of_sliced_vec(v, len) ==
    IF len > Len(v) THEN Err(BufferNotLongEnough(len, Len(v)))
    ELSE Ok(SubSeq(v, 1, len))

\* of_owned_vec pops `len - v.len()` times. When the vector is longer than
\* len the subtraction underflows: a build with overflow checks panics, a
\* build without them wraps and pops that many times (pop of an empty
\* vector does nothing).
of_owned_vec(v, len) ==
    IF len > Len(v) THEN {Err(BufferNotLongEnough(len, Len(v)))}
    ELSE IF len = Len(v) THEN {Ok(v)}
    ELSE {Panic("attempt to subtract with overflow"),
          Ok(SubSeq(v, 1, Len(v) - Min(WrappingSub(len, Len(v)), Len(v))))}

----------------------------------------------------------------------------
(* GltfBuffer::dump_data: the set of results a build can produce.          *)

\* A plausible slip: the `idx == 0` guard of the first arm left out.
dump_data_no_uri_anyIdx(self, i, map) ==
    IF None \in DOMAIN map
    THEN {of_sliced_vec(map[None], self.byte_length)}
    ELSE {Err(BufferUriMissingData(None))}

\* The arms `None if idx == 0` and `None`.
dump_data_no_uri(self, i, map) ==
    IF i = 0 THEN
        IF None \in DOMAIN map
        THEN {of_sliced_vec(map[None], self.byte_length)}
        ELSE {Err(BufferUriMissingData(None))}
    ELSE {Err(BufferHadNoUri(i))}

\* The arm `Some(uri)`.
dump_data_uri(self, map) ==
    LET uri == self.uri[1]
        data == base64str_from_data_uri(uri)
    IN  IF data # None THEN
            LET decoded == Base64Decode(data[1]) IN
            IF decoded.tag = "Err" THEN {decoded}
            ELSE of_owned_vec(decoded.ok, self.byte_length)
        ELSE IF Some(uri) \in DOMAIN map
             THEN {of_sliced_vec(map[Some(uri)], self.byte_length)}
             ELSE {Err(BufferUriMissingData(Some(uri)))}

dump_data(self, i, map) ==
    IF self.uri = None THEN dump_data_no_uri(self, i, map)
    ELSE dump_data_uri(self, map)

----------------------------------------------------------------------------
(* GltfBufferView::slice_from: the set of results a build can produce.     *)
(* `byte_offset + byte_length` is a usize addition: when it overflows, a   *)
(* build with overflow checks panics and a build without them wraps; the   *)
(* wrapped end lies before the start, so the range either fails the bounds *)
(* test or panics in the slice indexing.                                   *)

GltfBufferView(buf, off, len, stride, target, name, extensions, extras) ==
    [buffer |-> buf, byte_offset |-> off, byte_length |-> len,
     byte_stride |-> stride, target |-> target,
     name |-> name, extensions |-> extensions, extras |-> extras]

slice_from(self, datas) ==
    LET r == gltf_index_required(Len(datas), self.buffer, "buffers") IN
    IF r.tag = "Err" THEN {r}
    ELSE LET buf == datas[r.ok + 1]
             end == self.byte_offset + self.byte_length
             oob == Err(BufferViewSizeOOB(Len(buf), self.byte_offset, self.byte_length))
         IN  IF end > UsizeMax THEN
                 {Panic("attempt to add with overflow"),
                  IF end % (UsizeMax + 1) > Len(buf) THEN oob
                  ELSE Panic("slice index starts after its end")}
             ELSE IF end > Len(buf) THEN {oob}
             ELSE {Ok(SubSeq(buf, self.byte_offset + 1, end))}

----------------------------------------------------------------------------
(* GltfImage::dump_data: the set of results a build can produce.           *)

ImageNeedsDataUriXorBufferView(uri, buffer_view) ==
    [kind |-> "ImageNeedsDataUriXorBufferView", uri |-> uri, buffer_view |-> buffer_view]

\* (Some(uri), GltfIndex::UNDEFINED): a data URI is decoded, any other URI
\* is looked up in the blob map; both are handed on with their own length.
image_from_uri(self, map) ==
    LET uri == self.uri[1]
        data == base64str_from_data_uri(uri)
    IN  IF data # None THEN
            LET decoded == Base64Decode(data[1]) IN
            IF decoded.tag = "Err" THEN {decoded}
            ELSE of_owned_vec(decoded.ok, Len(decoded.ok))
        ELSE IF Some(uri) \in DOMAIN map
             THEN {of_sliced_vec(map[Some(uri)], Len(map[Some(uri)]))}
             ELSE {Err(BufferUriMissingData(Some(uri)))}

\* (None, buffer_view_idx) if buffer_view_idx.is_defined()
image_from_view(self, buffer_views, datas) ==
    LET r == gltf_index_required(Len(buffer_views), self.buffer_view, "bufferViews") IN
    IF r.tag = "Err" THEN {r}
    ELSE slice_from(buffer_views[r.ok + 1], datas)

\* _ => Err(Error::ImageNeedsDataUriXorBufferView { .. })
image_needs_xor(self) ==
    {Err(ImageNeedsDataUriXorBufferView(self.uri, self.buffer_view))}

\* A plausible slip: an image with both a uri and a bufferView resolved from
\* its uri.
GltfImage_dump_data_uriFirst(self, buffer_views, datas, map) ==
    IF self.uri # None THEN image_from_uri(self, map)
    ELSE IF is_defined(self.buffer_view) THEN image_from_view(self, buffer_views, datas)
    ELSE image_needs_xor(self)

\* match (&self.uri, self.buffer_view)
GltfImage_dump_data(self, buffer_views, datas, map) ==
    IF self.uri # None /\ self.buffer_view = GltfIndex_UNDEFINED
    THEN image_from_uri(self, map)
    ELSE IF self.uri = None /\ is_defined(self.buffer_view)
    THEN image_from_view(self, buffer_views, datas)
    ELSE image_needs_xor(self)

----------------------------------------------------------------------------
(* The body of the loop of pack_buffer_views (lib.rs).                     *)

Zeros(n) == [k \in 1..n |-> 0]

\* A plausible slip: the view built from defaults, not from `..buffer_view`.
new_view_fromDefault(buffer_view, data) ==
    GltfBufferView(GltfIndex_of(0), Len(data), buffer_view.byte_length,
                   None, None, "null", "null", "null")

\* GltfBufferView { buffer: 0.into(), byte_offset: data.len(), ..buffer_view }
new_view(buffer_view, data) ==
    [buffer_view EXCEPT !.buffer = GltfIndex_of(0), !.byte_offset = Len(data)]

\* A plausible slip: the padding added without the test for alignment.
pad_to_4_always(buf) == buf \o Zeros(4 - (Len(buf) % 4))

\* if new_buffer.len() % 4 != 0 { new_buffer.resize(len + (4 - len % 4), 0) }
pad_to_4(buf) ==
    IF Len(buf) % 4 # 0 THEN buf \o Zeros(4 - (Len(buf) % 4)) ELSE buf

----------------------------------------------------------------------------
(* Inputs.                                                                 *)

ListNames == {"buffers", "bufferViews"}

\* "text/plain": a media type the grammar does not accept.
StrTextPlain == <<116, 101, 120, 116, 47, 112, 108, 97, 105, 110>>
\* "a.bin" and "b.bin": names of external blobs.
NameABin == <<97, 46, 98, 105, 110>>
NameBBin == <<98, 46, 98, 105, 110>>

\* Payloads: "QUJD", "QUI=", "QUJDRA==" (valid base64 of "ABC", "AB", "ABCD"),
\* "QUJ" (length not a multiple of 4), "Q!JD" (a symbol outside the alphabet),
\* "QUK=" (non-zero trailing bits) and the empty payload.
PayQUJD == <<81, 85, 74, 68>>
PayQUI == <<81, 85, 73, 61>>
PayQUJDRA == <<81, 85, 74, 68, 82, 65, 61, 61>>
PayQUJ == <<81, 85, 74>>
PayBadSymbol == <<81, 33, 74, 68>>
PayQUK == <<81, 85, 75, 61>>
Payloads == {<<>>, PayQUJD, PayQUI, PayQUJDRA, PayQUJ, PayBadSymbol, PayQUK}

MediaTypes == {StrOctetStream, StrGltfBuffer}

DataUris ==
    {StrData \o mt \o marker \o pay :
        mt \in MediaTypes, marker \in {StrBase64Comma, StrComma}, pay \in Payloads}

Uris == DataUris \cup {NameABin, NameBBin, StrData \o StrTextPlain \o StrBase64Comma \o PayQUJD}

JsonNull == "null"

GltfBuffer(uri, len) ==
    [uri |-> uri, byte_length |-> len,
     name |-> JsonNull, extensions |-> JsonNull, extras |-> JsonNull]

\* struct GltfImage: bufferView defaults to GltfIndex::UNDEFINED.
GltfImage(uri, mime_type, buffer_view) ==
    [uri |-> uri, mime_type |-> mime_type, buffer_view |-> buffer_view,
     name |-> JsonNull, extensions |-> JsonNull, extras |-> JsonNull]

\* The blobs of the blob map: the default payload and the file "a.bin".
BlobDefault == <<10, 20, 30>>
BlobABin == <<1, 2, 3, 4, 5>>
BlobOf(key) == IF key = None THEN BlobDefault ELSE BlobABin

BlobMaps == {[k \in keys |-> BlobOf(k)] : keys \in SUBSET {None, Some(NameABin)}}

\* Two kinds of view: a bare one into buffer 0 and one into buffer 1 with a
\* stride, a target (34962, ARRAY_BUFFER), a name, extensions and extras.
BareView(off, len) ==
    GltfBufferView(GltfIndex_of(0), off, len, None, None, JsonNull, JsonNull, JsonNull)
FullView(off, len) ==
    GltfBufferView(GltfIndex_of(1), off, len, Some(4), Some(34962),
                   "\"positions\"", "{\"EXT_a\":{}}", "{\"k\":1}")

\* The bytes first, first + 1, ... (none of them zero).
Ramp(first, n) == [k \in 1..n |-> first + k - 1]

\* The items of SpecPack: a view with the slice slice_from gives for it
\* (as long as the view's byteLength), or an error.
PackItems ==
    {Ok([view |-> BareView(0, n), data |-> Ramp(1, n)]) : n \in 0..MaxSliceLen}
    \cup {Ok([view |-> FullView(5, n), data |-> Ramp(101, n)]) : n \in 0..MaxSliceLen}
    \cup {Err(BufferViewSizeOOB(3, 2, 2))}

SeqsUpTo(S, n) == UNION {[1..k -> S] : k \in 0..n}

\* The buffers of the documents of SpecDoc: the default payload, the file
\* "a.bin", and "ABC" as a data URI with its length and with a shorter one.
DocBuffers ==
    {GltfBuffer(None, 3),
     GltfBuffer(Some(NameABin), 4),
     GltfBuffer(Some(StrData \o StrOctetStream \o StrBase64Comma \o PayQUJD), 3),
     GltfBuffer(Some(StrData \o StrOctetStream \o StrBase64Comma \o PayQUJD), 2)}

\* The views of the documents of SpecDoc: two that fit a buffer of 3 bytes,
\* one that ends after it, one with no buffer index and one whose offset +
\* length overflows.
DocViews ==
    {BareView(0, 3),
     FullView(1, 2),
     BareView(2, 2),
     [BareView(0, 1) EXCEPT !.buffer = GltfIndex_UNDEFINED],
     BareView(UsizeMax - 1, 3)}

\* A document: a JSON object that has the key of a list or, when the list
\* is empty, may lack it.
Document(buffers, views, keys) ==
    [k \in keys |-> IF k = "buffers" THEN buffers ELSE views]

Documents ==
    {Document(b, v, keys) :
        b \in SeqsUpTo(DocBuffers, MaxBuffers), v \in SeqsUpTo(DocViews, MaxViews),
        keys \in SUBSET {"buffers", "bufferViews"}}

DocBlobMaps == {[k \in {} |-> <<>>], [k \in {None, Some(NameABin)} |-> BlobOf(k)]}

----------------------------------------------------------------------------
(* Values of the variables a specification does not use.                   *)

IdleIndex == idx = 0 /\ list_name = "" /\ list_len = 0
IdleBuffer == buffer = GltfBuffer(None, 0) /\ buf_idx = 0
IdlePack == items = <<>> /\ new_buffer_views = <<>> /\ new_buffer = <<>>
IdleDoc == gltf_json = <<>> /\ doc0 = <<>> /\ buffer_datas = <<>> /\ trace = <<>>
IdleObj == view = BareView(0, 0) /\ image = GltfImage(None, None, GltfIndex_UNDEFINED)
IdleJobs == textures = <<>> /\ new_images = <<>> /\ old_image_idx_to_new_image_idx = <<>>

----------------------------------------------------------------------------
(* SpecIndex: an index built by GltfIndex::of (GltfIndex::default is       *)
(* of(usize::MAX)) is resolved against a list of some length.              *)

InitIndex ==
    /\ pc = "index"
    /\ result = NoResult
    /\ idx \in {GltfIndex_of(p) : p \in 0..UsizeMax}
    /\ list_name \in ListNames
    /\ list_len \in 0..MaxListLen
    /\ IdleBuffer /\ IdlePack /\ IdleDoc
    /\ IdleObj /\ IdleJobs
    /\ binaries = <<>> /\ pos = 0

IdxWithin ==
    /\ pc = "index"
    /\ result' = idx_within(idx, list_name, list_len)
    /\ pc' = "idx_within"
    /\ UNCHANGED <<idxVars, bufVars, objVars, jobVars, binaries, packVars, pos, docVars>>

GltfIndexRequired ==
    /\ pc = "index"
    /\ result' = gltf_index_required(list_len, idx, list_name)
    /\ pc' = "gltf_index_required"
    /\ UNCHANGED <<idxVars, bufVars, objVars, jobVars, binaries, packVars, pos, docVars>>

NextIndex == IdxWithin \/ GltfIndexRequired

SpecIndex == InitIndex /\ [][NextIndex]_vars

----------------------------------------------------------------------------
(* SpecBuffer: dump_data of one buffer at one document position.           *)

InitBuffer ==
    /\ pc = "buffer"
    /\ result = NoResult
    /\ buffer \in {GltfBuffer(uri, len) :
                      uri \in {None} \cup {Some(u) : u \in Uris}, len \in 0..MaxByteLength}
    /\ buf_idx \in 0..MaxBufIdx
    /\ binaries \in BlobMaps
    /\ IdleIndex /\ IdlePack /\ IdleDoc
    /\ IdleObj /\ IdleJobs
    /\ pos = 0

DumpData ==
    /\ pc = "buffer"
    /\ \E r \in dump_data(buffer, buf_idx, binaries) :
          /\ result' = r
          /\ pc' = IF r.tag = "Panic" THEN "panicked" ELSE "dump_data"
    /\ UNCHANGED <<idxVars, bufVars, objVars, jobVars, binaries, packVars, pos, docVars>>

NextBuffer == DumpData

SpecBuffer == InitBuffer /\ [][NextBuffer]_vars

----------------------------------------------------------------------------
(* pack_buffer_views: one action per turn of the loop. `items` is what the *)
(* iterator yields and `pos` how many items were pulled from it; `trace`   *)
(* records what was pulled.                                                *)

\* for item in iter { match item { Ok((buffer_view, data)) => ... } }
PackOk ==
    /\ pc = "pack"
    /\ pos < Len(items)
    /\ items[pos + 1].tag = "Ok"
    /\ LET buffer_view == items[pos + 1].ok.view
           data == items[pos + 1].ok.data
           padded == pad_to_4(new_buffer \o data)
       IN  /\ new_buffer_views' = Append(new_buffer_views, new_view(buffer_view, data))
           /\ new_buffer' = padded
           \* assert!(new_buffer.len() % 4 == 0)
           /\ IF Len(padded) % 4 = 0
              THEN pc' = "pack" /\ result' = result
              ELSE pc' = "panicked" /\ result' = Panic("assertion failed")
    /\ pos' = pos + 1
    /\ trace' = Append(trace, [list |-> "bufferViews", at |-> pos, res |-> Ok(<<>>)])
    /\ UNCHANGED <<idxVars, bufVars, objVars, jobVars, binaries, items, gltf_json, doc0, buffer_datas>>

\* A plausible slip: an item that failed is skipped and the loop goes on.
PackErr_skips ==
    /\ pc = "pack"
    /\ pos < Len(items)
    /\ items[pos + 1].tag # "Ok"
    /\ pos' = pos + 1
    /\ trace' = Append(trace, [list |-> "bufferViews", at |-> pos, res |-> items[pos + 1]])
    /\ UNCHANGED <<pc, result, idxVars, bufVars, objVars, jobVars, binaries, packVars, gltf_json, doc0, buffer_datas>>

\* Err(e) => return Err(e); a panic of the iterator unwinds.
PackErr ==
    /\ pc = "pack"
    /\ pos < Len(items)
    /\ items[pos + 1].tag # "Ok"
    /\ result' = items[pos + 1]
    /\ pc' = IF items[pos + 1].tag = "Panic" THEN "panicked" ELSE "pack_returned"
    /\ pos' = pos + 1
    /\ trace' = Append(trace, [list |-> "bufferViews", at |-> pos, res |-> items[pos + 1]])
    /\ UNCHANGED <<idxVars, bufVars, objVars, jobVars, binaries, packVars, gltf_json, doc0, buffer_datas>>

\* Ok((new_buffer_views, new_buffer))
PackReturn ==
    /\ pc = "pack"
    /\ pos = Len(items)
    /\ result' = Ok([new_buffer_views |-> new_buffer_views, new_buffer |-> new_buffer])
    /\ pc' = "pack_returned"
    /\ UNCHANGED <<idxVars, bufVars, objVars, jobVars, binaries, packVars, pos, docVars>>

----------------------------------------------------------------------------
(* Input and Output (lib.rs). A document is a function from its keys to    *)
(* lists, held in their deserialized form.                                 *)

EmptyDoc == [k \in {} |-> <<>>]

get_list(doc, name) == IF name \in DOMAIN doc THEN doc[name] ELSE <<>>

\* A plausible slip: the list extended where it should be replaced.
set_list_extends(doc, name, data) ==
    [k \in DOMAIN doc \cup {name} |->
        IF k = name THEN get_list(doc, name) \o data ELSE doc[k]]

set_list(doc, name, data) ==
    [k \in DOMAIN doc \cup {name} |-> IF k = name THEN data ELSE doc[k]]

Output(doc, binary) == [gltf_json |-> doc, binary |-> binary]

----------------------------------------------------------------------------
(* pack_buffers_together: the buffers are resolved one by one (collect     *)
(* stops at the first error), the views are sliced as pack_buffer_views    *)
(* pulls them, and the lists of the document are replaced at the end.      *)

\* buffers.into_iter().enumerate().map(dump_data): a buffer that resolves.
DumpBufferOk ==
    /\ pc = "dump_buffers"
    /\ pos < Len(get_list(gltf_json, "buffers"))
    /\ \E r \in dump_data(get_list(gltf_json, "buffers")[pos + 1], pos, binaries) :
          /\ r.tag = "Ok"
          /\ buffer_datas' = Append(buffer_datas, r.ok)
    /\ pos' = pos + 1
    /\ trace' = Append(trace, [list |-> "buffers", at |-> pos, res |-> Ok(<<>>)])
    /\ UNCHANGED <<pc, result, idxVars, bufVars, objVars, jobVars, binaries, packVars, gltf_json, doc0>>

\* .collect::<Result<_>>()?: the first error is returned; a panic unwinds.
DumpBufferFail ==
    /\ pc = "dump_buffers"
    /\ pos < Len(get_list(gltf_json, "buffers"))
    /\ \E r \in dump_data(get_list(gltf_json, "buffers")[pos + 1], pos, binaries) :
          /\ r.tag # "Ok"
          /\ result' = r
          /\ pc' = IF r.tag = "Panic" THEN "panicked" ELSE "returned"
          /\ trace' = Append(trace, [list |-> "buffers", at |-> pos, res |-> r])
    /\ pos' = pos + 1
    /\ UNCHANGED <<idxVars, bufVars, objVars, jobVars, binaries, packVars, gltf_json, doc0, buffer_datas>>

\* The item the iterator yields for a view: (v, slice), or slice_from's error.
ItemsOf(v, datas) ==
    {IF r.tag = "Ok" THEN Ok([view |-> v, data |-> r.ok]) ELSE r : r \in slice_from(v, datas)}

\* buffer_views.into_iter().map(|v| ...): the iterator pack_buffer_views is
\* called with. slice_from has no effect, so what it gives for a view does
\* not depend on when the view is pulled.
SliceViews ==
    /\ pc = "dump_buffers"
    /\ pos = Len(get_list(gltf_json, "buffers"))
    /\ LET buffer_views == get_list(gltf_json, "bufferViews") IN
       /\ items' \in [1..Len(buffer_views) -> UNION {ItemsOf(v, buffer_datas) : v \in DocViews}]
       /\ \A i \in 1..Len(buffer_views) : items'[i] \in ItemsOf(buffer_views[i], buffer_datas)
    /\ pos' = 0
    /\ new_buffer_views' = <<>>
    /\ new_buffer' = <<>>
    /\ pc' = "pack"
    /\ UNCHANGED <<result, idxVars, bufVars, objVars, jobVars, binaries, docVars>>

\* pack_buffer_views(...)?: its error is the error of pack_buffers_together.
PackFailed ==
    /\ pc = "pack_returned"
    /\ result.tag = "Err"
    /\ pc' = "returned"
    /\ UNCHANGED <<result, idxVars, bufVars, objVars, jobVars, binaries, packVars, pos, docVars>>

\* The synthetic buffer that describes the packed bytes.
packed_buffer(bytes) == GltfBuffer(None, Len(bytes))

\* input.set_list("buffers", ...); input.set_list("bufferViews", ...);
\* Ok(Output { gltf_json: input.consume_doc(), binary: new_buffer }).
\* consume_doc takes the document and leaves an empty one behind.
SetLists ==
    /\ pc = "pack_returned"
    /\ result.tag = "Ok"
    /\ LET doc1 == set_list(gltf_json, "buffers", <<packed_buffer(result.ok.new_buffer)>>)
           doc2 == set_list(doc1, "bufferViews", result.ok.new_buffer_views)
       IN  /\ result' = Ok(Output(doc2, result.ok.new_buffer))
           /\ gltf_json' = EmptyDoc
    /\ pc' = "returned"
    /\ UNCHANGED <<idxVars, bufVars, objVars, jobVars, binaries, packVars, pos, doc0, buffer_datas, trace>>

----------------------------------------------------------------------------
(* SpecPack: pack_buffer_views over a sequence of items.                   *)

InitPack ==
    /\ pc = "pack"
    /\ result = NoResult
    /\ items \in SeqsUpTo(PackItems, MaxItems)
    /\ pos = 0
    /\ new_buffer_views = <<>>
    /\ new_buffer = <<>>
    /\ IdleIndex /\ IdleBuffer /\ IdleDoc
    /\ IdleObj /\ IdleJobs
    /\ binaries = <<>>

NextPack == PackOk \/ PackErr \/ PackReturn

SpecPack == InitPack /\ [][NextPack]_vars

----------------------------------------------------------------------------
(* Claims about pack_buffer_views, under SpecPack.                         *)

PackedOk == pc = "pack_returned" /\ result.tag = "Ok"

\* C1: after a packing in which every item succeeded, for every position i
\* the bytes of the packed buffer in [byteOffset_i, byteOffset_i +
\* byteLength_i) of the i-th rewritten view are the i-th input slice.
C1_RoundTrip ==
    PackedOk =>
        \A i \in 1..Len(items) :
            LET v == result.ok.new_buffer_views[i]
                packed == result.ok.new_buffer
            IN  /\ v.byte_offset + v.byte_length <= Len(packed)
                /\ SubSeq(packed, v.byte_offset + 1, v.byte_offset + v.byte_length)
                       = items[i].ok.data

\* The padding the claim C2 states for a slice of n bytes.
PadLen(n) == (4 - (n % 4)) % 4

RECURSIVE SumPadded(_)
SumPadded(k) ==
    IF k = 0 THEN 0
    ELSE SumPadded(k - 1) + Len(items[k].ok.data) + PadLen(Len(items[k].ok.data))

\* Where the k-th slice starts when every slice is followed by its padding.
StartOf(k) == SumPadded(k - 1)

\* C2: after every turn of the loop and at return the packed buffer's length
\* is a multiple of 4 and is the sum over the slices packed so far of (slice
\* length + (4 - slice length % 4) % 4); every byte that is not a byte of a
\* slice is a zero padding byte.
C2_AlignedZeroPadded ==
    pc \in {"pack", "pack_returned"} =>
        LET k == Len(new_buffer_views) IN
        /\ Len(new_buffer) % 4 = 0
        /\ Len(new_buffer) = SumPadded(k)
        /\ \A i \in 1..k :
              LET n == Len(items[i].ok.data) IN
              \A b \in (StartOf(i) + n + 1)..StartOf(i + 1) : new_buffer[b] = 0
        /\ PackedOk => /\ k = Len(items)
                       /\ result.ok.new_buffer = new_buffer

\* A packing returned after an aligned slice and two slices that needed
\* padding of different lengths.
C2_Witness ==
    /\ PackedOk
    /\ Len(items) = 3
    /\ Len(items[1].ok.data) = 4
    /\ Len(items[2].ok.data) = 1
    /\ Len(items[3].ok.data) = 3
    /\ Len(result.ok.new_buffer) = 12

\* C3: after a successful packing every rewritten view's byteOffset +
\* byteLength is at most the length of the packed buffer and the byte ranges
\* of two different rewritten views do not overlap.
C3_InBoundsDisjoint ==
    PackedOk =>
        LET views == result.ok.new_buffer_views
            End(v) == v.byte_offset + v.byte_length
        IN  /\ \A i \in 1..Len(views) : End(views[i]) <= Len(result.ok.new_buffer)
            /\ \A i, j \in 1..Len(views) :
                  (i # j /\ views[i].byte_length > 0 /\ views[j].byte_length > 0)
                      => \/ End(views[i]) <= views[j].byte_offset
                         \/ End(views[j]) <= views[i].byte_offset

\* C4: the rewritten view list has as many entries as the input, in the same
\* order; every entry has buffer index 0 and the byteLength, byteStride,
\* target, name, extensions and extras of the input view at its position.
C4_OnlyBufferAndOffset ==
    PackedOk =>
        LET views == result.ok.new_buffer_views IN
        /\ Len(views) = Len(items)
        /\ \A i \in 1..Len(views) :
              LET old == items[i].ok.view IN
              /\ views[i].buffer = 0
              /\ views[i].byte_length = old.byte_length
              /\ views[i].byte_stride = old.byte_stride
              /\ views[i].target = old.target
              /\ views[i].name = old.name
              /\ views[i].extensions = old.extensions
              /\ views[i].extras = old.extras

\* A packing returned two views, the second of which pointed into buffer 1
\* and had a stride, a target, a name, extensions and extras.
C4_Witness ==
    /\ PackedOk
    /\ Len(items) = 2
    /\ items[1].ok.view = BareView(0, 2)
    /\ items[2].ok.view = FullView(5, 3)
    /\ result.ok.new_buffer_views[2].buffer = 0
    /\ result.ok.new_buffer_views[2].byte_stride = Some(4)

----------------------------------------------------------------------------
(* SpecDoc: pack_buffers_together over a document and a blob map.          *)

InitDoc ==
    /\ pc = "dump_buffers"
    /\ result = NoResult
    /\ gltf_json \in Documents
    /\ doc0 = gltf_json
    /\ binaries \in DocBlobMaps
    /\ buffer_datas = <<>>
    /\ trace = <<>>
    /\ pos = 0
    /\ IdleIndex /\ IdleBuffer /\ IdlePack
    /\ IdleObj /\ IdleJobs

NextDoc ==
    \/ DumpBufferOk \/ DumpBufferFail \/ SliceViews
    \/ PackOk \/ PackErr \/ PackReturn
    \/ PackFailed \/ SetLists

SpecDoc == InitDoc /\ [][NextDoc]_vars

----------------------------------------------------------------------------
(* Claims about pack_buffers_together, under SpecDoc.                      *)

NumBuffers == Len(get_list(doc0, "buffers"))
NumViews == Len(get_list(doc0, "bufferViews"))

\* C5: the elements are resolved in document order, all buffers before any
\* view; when one fails nothing is resolved after it, the call returns that
\* element's error and nothing else, and the document's `buffers` and
\* `bufferViews` are what they were. Packed bytes and rewritten views are
\* returned only when no element failed.
C5_FirstErrorOnly ==
    /\ \A k \in 1..Len(trace) :
          /\ IF k <= NumBuffers
             THEN trace[k].list = "buffers" /\ trace[k].at = k - 1
             ELSE trace[k].list = "bufferViews" /\ trace[k].at = k - 1 - NumBuffers
          /\ trace[k].res.tag = "Err" =>
                /\ k = Len(trace)
                /\ pc \in {"pack_returned", "returned"}
                /\ result = trace[k].res
                /\ gltf_json = doc0
    /\ (pc = "returned" /\ result.tag = "Ok") =>
          /\ Len(trace) = NumBuffers + NumViews
          /\ \A k \in 1..Len(trace) : trace[k].res.tag = "Ok"
    /\ gltf_json # doc0 => (pc = "returned" /\ result.tag = "Ok")

\* The second view of a document failed after the first one was packed:
\* the call returned the second view's error and left the document alone.
C5_Witness ==
    /\ pc = "returned"
    /\ NumBuffers = 1 /\ NumViews = 2
    /\ Len(trace) = 3
    /\ result = Err(BufferViewSizeOOB(3, 2, 2))
    /\ Len(new_buffer) = 4
    /\ gltf_json = doc0

\* C6: after a successful pack_buffers_together the document's `buffers`
\* list holds exactly one buffer, with no uri and with byteLength equal to
\* the length of the returned binary, and `bufferViews` holds the rewritten
\* view list (one view for every view of the input).
C6_OneSyntheticBuffer ==
    (pc = "returned" /\ result.tag = "Ok") =>
        LET doc == result.ok.gltf_json IN
        /\ {"buffers", "bufferViews"} \subseteq DOMAIN doc
        /\ Len(doc["buffers"]) = 1
        /\ doc["buffers"][1].uri = None
        /\ doc["buffers"][1].byte_length = Len(result.ok.binary)
        /\ doc["bufferViews"] = new_buffer_views
        /\ Len(doc["bufferViews"]) = NumViews

\* A document with two buffers and two views was packed into 8 bytes.
C6_Witness ==
    /\ pc = "returned" /\ result.tag = "Ok"
    /\ NumBuffers = 2 /\ NumViews = 2
    /\ Len(result.ok.binary) = 8
    /\ Len(result.ok.gltf_json["buffers"]) = 1

----------------------------------------------------------------------------
(* Claims about GltfIndex, under SpecIndex.                                *)

\* C7 as stated: for every raw position p an index can be built from with
\* of(p) and every list length n, resolving gives Some(p) when p < n and the
\* out-of-bounds error carrying the list name, p and n when p >= n.
C7_OfNeverUndefined ==
    pc = "idx_within" =>
        result = IF idx < list_len THEN Ok(Some(idx))
                                     ELSE Err(IdxOOB(list_name, idx, list_len))

\* C7 (amended): the same for every raw position other than the maximum
\* value of the index type; of(maximum) is the undefined index and resolves
\* to None whatever the list length.
C7_OfResolves ==
    pc = "idx_within" =>
        result = IF idx = UsizeMax THEN Ok(None)
                   ELSE IF idx < list_len THEN Ok(Some(idx))
                   ELSE Err(IdxOOB(list_name, idx, list_len))

\* A position equal to the list length, not the sentinel, was refused.
C7_Witness ==
    /\ pc = "idx_within"
    /\ idx = list_len /\ idx # UsizeMax
    /\ result = Err(IdxOOB(list_name, idx, list_len))

----------------------------------------------------------------------------
(* Claims about GltfBuffer::dump_data, under SpecBuffer.                   *)

Returned == pc \in {"dump_data", "panicked"}

\* What resolution against a declared length L is said to give for a source src.
FirstBytesOrTooShort(src, L) ==
    IF Len(src) < L THEN Err(BufferNotLongEnough(L, Len(src)))
    ELSE Ok(SubSeq(src, 1, L))

\* The valid base64 payloads of the inputs with the bytes they encode.
KnownBase64 ==
    {<< <<>>, <<>> >>, <<PayQUJD, <<65, 66, 67>> >>, <<PayQUI, <<65, 66>> >>,
     <<PayQUJDRA, <<65, 66, 67, 68>> >>}

\* C8: against a declared byteLength L, a source (a decoded data URI or a
\* blob-map entry) with fewer than L bytes fails with BufferNotLongEnough
\* {expected = L, got = source length}; any other source gives exactly its
\* first L bytes, also when it is strictly longer than L.
C8_TruncateToDeclared ==
    Returned =>
        /\ (buffer.uri = None /\ buf_idx = 0 /\ None \in DOMAIN binaries)
              => result = FirstBytesOrTooShort(binaries[None], buffer.byte_length)
        /\ (buffer.uri = Some(NameABin) /\ Some(NameABin) \in DOMAIN binaries)
              => result = FirstBytesOrTooShort(binaries[Some(NameABin)], buffer.byte_length)
        /\ \A mt \in MediaTypes, kb \in KnownBase64 :
              buffer.uri = Some(StrData \o mt \o StrBase64Comma \o kb[1])
                  => result = FirstBytesOrTooShort(kb[2], buffer.byte_length)

\* C9: a uri of the accepted data-URI grammar without the `;base64` marker
\* gives the bytes after the comma unchanged (stated for the declared
\* lengths that do not truncate: a longer declared length fails with the
\* payload's length, an equal one gives the payload).
C9_PlainPayloadUnchanged ==
    Returned =>
        \A mt \in MediaTypes, pay \in Payloads :
            buffer.uri = Some(StrData \o mt \o StrComma \o pay) =>
                /\ buffer.byte_length > Len(pay)
                      => result = Err(BufferNotLongEnough(buffer.byte_length, Len(pay)))
                /\ buffer.byte_length = Len(pay) => result = Ok(pay)

\* C10: a buffer with no uri resolves from the blob map entry keyed by the
\* absent name only at position 0; at position 0 without that entry it fails
\* with BufferUriMissingData(none); at every position greater than 0 it
\* fails with BufferHadNoUri(position), whatever the blob map contains.
C10_NoUriOnlyAtZero ==
    (Returned /\ buffer.uri = None) =>
        IF buf_idx > 0 THEN result = Err(BufferHadNoUri(buf_idx))
        ELSE IF None \notin DOMAIN binaries THEN result = Err(BufferUriMissingData(None))
        ELSE \/ /\ result.tag = "Ok"
                /\ Len(result.ok) = buffer.byte_length
                /\ \A k \in 1..Len(result.ok) : result.ok[k] = binaries[None][k]
             \/ /\ buffer.byte_length > Len(binaries[None])
                /\ result = Err(BufferNotLongEnough(buffer.byte_length, Len(binaries[None])))

\* A buffer without uri at a position greater than 0 was refused although
\* the blob map holds the default payload and it is long enough.
C10_Witness ==
    /\ pc = "dump_data"
    /\ buffer.uri = None /\ buf_idx > 0
    /\ None \in DOMAIN binaries /\ buffer.byte_length <= Len(binaries[None])
    /\ result = Err(BufferHadNoUri(buf_idx))

----------------------------------------------------------------------------
(* SpecSlice: slice_from of one view over a list of resolved buffers.      *)

\* The resolved buffers of SpecSlice: empty, 3 bytes long and 12 bytes long.
SliceBuffers == {Ramp(1, n) : n \in {0, 3, 12}}

InitSlice ==
    /\ pc = "view"
    /\ result = NoResult
    /\ buffer_datas \in SeqsUpTo(SliceBuffers, MaxBuffers)
    /\ view \in {GltfBufferView(b, off, len, None, None, JsonNull, JsonNull, JsonNull) :
                    b \in {GltfIndex_of(0), GltfIndex_of(1), GltfIndex_UNDEFINED},
                    off \in 0..UsizeMax, len \in 0..UsizeMax}
    /\ image = GltfImage(None, None, GltfIndex_UNDEFINED)
    /\ gltf_json = <<>> /\ doc0 = <<>> /\ trace = <<>>
    /\ IdleIndex /\ IdleBuffer /\ IdlePack /\ IdleJobs
    /\ binaries = <<>> /\ pos = 0

SliceFrom ==
    /\ pc = "view"
    /\ \E r \in slice_from(view, buffer_datas) :
          /\ result' = r
          /\ pc' = IF r.tag = "Panic" THEN "panicked" ELSE "slice_from"
    /\ UNCHANGED <<idxVars, bufVars, objVars, jobVars, binaries, packVars, pos, docVars>>

NextSlice == SliceFrom

SpecSlice == InitSlice /\ [][NextSlice]_vars

\* The buffer the view of SpecSlice names, when its index resolves.
ViewBufferResolves == is_defined(view.buffer) /\ view.buffer < Len(buffer_datas)
ViewBuffer == buffer_datas[view.buffer + 1]

\* C11: once slice_from has run on a view whose buffer index resolves, the
\* result is BufferViewSizeOOB with the buffer's length, the offset and the
\* length if byteOffset + byteLength exceeds the buffer's length, and the
\* bytes [byteOffset, byteOffset + byteLength) of the buffer otherwise.
C11_SliceOrOOB ==
    (pc \in {"slice_from", "panicked"} /\ ViewBufferResolves) =>
        IF view.byte_offset + view.byte_length > Len(ViewBuffer)
        THEN result = Err(BufferViewSizeOOB(Len(ViewBuffer), view.byte_offset,
                                            view.byte_length))
        ELSE result = Ok(SubSeq(ViewBuffer, view.byte_offset + 1,
                                view.byte_offset + view.byte_length))

\* The part of C11 the code keeps: the same, when the sum fits a usize.
C11_SliceOrOOB_NoOverflow ==
    (view.byte_offset + view.byte_length <= UsizeMax) => C11_SliceOrOOB

----------------------------------------------------------------------------
(* SpecImage: dump_data of one image over a list of views, the resolved    *)
(* buffers and the blob map.                                               *)

\* The uris of the images of SpecImage: "ABC" and "ABCD" as base64 data
\* URIs, a data URI that is not base64, one without the marker, and the
\* files "a.bin" (in the blob map) and "b.bin" (not in it).
ImageUris ==
    {StrData \o StrOctetStream \o StrBase64Comma \o PayQUJD,
     StrData \o StrOctetStream \o StrBase64Comma \o PayQUJDRA,
     StrData \o StrOctetStream \o StrBase64Comma \o PayBadSymbol,
     StrData \o StrOctetStream \o StrComma \o PayQUJD,
     NameABin, NameBBin}

InitImage ==
    /\ pc = "image"
    /\ result = NoResult
    /\ image \in {GltfImage(uri, None, bv) :
                     uri \in {None} \cup {Some(u) : u \in ImageUris},
                     bv \in {GltfIndex_of(p) : p \in 0..MaxViews} \cup {GltfIndex_UNDEFINED}}
    /\ gltf_json \in {Document(<<>>, v, {"bufferViews"}) : v \in SeqsUpTo(DocViews, MaxViews)}
    /\ buffer_datas \in SeqsUpTo({Ramp(1, 3)}, MaxBuffers)
    /\ binaries \in DocBlobMaps
    /\ view = BareView(0, 0)
    /\ doc0 = <<>> /\ trace = <<>>
    /\ IdleIndex /\ IdleBuffer /\ IdlePack /\ IdleJobs
    /\ pos = 0

ImageDumpData ==
    /\ pc = "image"
    /\ \E r \in GltfImage_dump_data(image, get_list(gltf_json, "bufferViews"),
                                    buffer_datas, binaries) :
          /\ result' = r
          /\ pc' = IF r.tag = "Panic" THEN "panicked" ELSE "image_dump_data"
    /\ UNCHANGED <<idxVars, bufVars, objVars, jobVars, binaries, packVars, pos, docVars>>

NextImage == ImageDumpData

SpecImage == InitImage /\ [][NextImage]_vars

ImageReturned == pc \in {"image_dump_data", "panicked"}
ImageHasUri == image.uri # None
ImageHasView == is_defined(image.buffer_view)

\* The view an image's bufferView names, when the index resolves.
ImageViewResolves == ImageHasView /\ image.buffer_view < Len(get_list(gltf_json, "bufferViews"))
ImageView == get_list(gltf_json, "bufferViews")[image.buffer_view + 1]

\* C12: once dump_data of an image has run, (a) an image with both a uri
\* and a bufferView, or with neither, gave ImageNeedsDataUriXorBufferView
\* carrying its uri and bufferView, so a success has exactly one of them;
\* (b) with only a uri, a base64 data URI gave every decoded byte and a name
\* in the blob map gave the whole blob; (c) with only a bufferView that
\* resolves, the result is a result of slice_from for that view: the bytes
\* [offset, offset + length) of its buffer when they lie within it.
C12_ExactlyOneSource ==
    ImageReturned =>
        /\ (ImageHasUri = ImageHasView)
              => result = Err(ImageNeedsDataUriXorBufferView(image.uri, image.buffer_view))
        /\ result.tag = "Ok" => (ImageHasUri # ImageHasView)
        /\ (ImageHasUri /\ ~ImageHasView) =>
              /\ \A kb \in KnownBase64 :
                    image.uri = Some(StrData \o StrOctetStream \o StrBase64Comma \o kb[1])
                        => result = Ok(kb[2])
              /\ (base64str_from_data_uri(image.uri[1]) = None /\ image.uri \in DOMAIN binaries)
                    => result = Ok(binaries[image.uri])
        /\ (~ImageHasUri /\ ImageViewResolves) =>
              /\ result \in slice_from(ImageView, buffer_datas)
              /\ (/\ is_defined(ImageView.buffer)
                  /\ ImageView.buffer < Len(buffer_datas)
                  /\ ImageView.byte_offset + ImageView.byte_length
                        <= Len(buffer_datas[ImageView.buffer + 1]))
                    => result = Ok(SubSeq(buffer_datas[ImageView.buffer + 1],
                                          ImageView.byte_offset + 1,
                                          ImageView.byte_offset + ImageView.byte_length))

\* An image with both a uri and a bufferView that resolves was refused.
C12_Witness ==
    /\ pc = "image_dump_data" /\ ImageHasUri /\ ImageViewResolves
    /\ result = Err(ImageNeedsDataUriXorBufferView(image.uri, image.buffer_view))

----------------------------------------------------------------------------
(* JSON values that the code looks into (serde_json::Value): textures'     *)
(* extensions and the materials.                                           *)

JNull == [json |-> "null"]
JNumber(n) == [json |-> "number", n |-> n]
JObject(members) == [json |-> "object", members |-> members]

as_object(v) == IF v.json = "object" THEN Some(v.members) ELSE None
as_u64(v) == IF v.json = "number" THEN Some(v.n) ELSE None
json_get(obj, key) == IF key \in DOMAIN obj THEN Some(obj[key]) ELSE None

\* value.as_object()?.get(key)?
member(v, key) ==
    IF v = None \/ as_object(v[1]) = None THEN None
    ELSE json_get(as_object(v[1])[1], key)

\* json!({ "source": idx })
KtxExtension(n) == JObject([k \in {"source"} |-> JNumber(n)])

GltfTexture(source, extensions) ==
    [sampler |-> GltfIndex_UNDEFINED, source |-> source,
     name |-> JsonNull, extensions |-> extensions, extras |-> JsonNull]

texture_ktx_source(texture) ==
    LET src == member(member(Some(texture.extensions), "KHR_texture_basisu"), "source") IN
    IF src = None \/ as_u64(src[1]) = None THEN None
    ELSE Some(GltfIndex_of(as_u64(src[1])[1]))

TextureHasInvalidExtensions == [kind |-> "TextureHasInvalidExtensions"]

\* The texture after set_texture_ktx_source, or how the call fails. Indexing
\* a serde_json::Map with a key it lacks panics.
set_texture_ktx_source(texture, new_idx) ==
    IF ~is_defined(new_idx) THEN Panic("assertion failed: new_idx.is_defined()")
    ELSE IF texture.extensions.json \notin {"object", "null"}
    THEN Err(TextureHasInvalidExtensions)
    ELSE LET ext == IF texture.extensions.json = "object"
                    THEN texture.extensions.members ELSE <<>>
         IN  IF "KHR_texture_basisu" \notin DOMAIN ext THEN Panic("no entry found for key")
             ELSE Ok([texture EXCEPT !.extensions =
                        JObject([ext EXCEPT !["KHR_texture_basisu"] = KtxExtension(new_idx)])])

material_diffuse_tex(mat) ==
    LET i == member(member(member(Some(mat), "pbrMetallicRoughness"),
                           "baseColorTexture"), "index") IN
    IF i = None \/ as_u64(i[1]) = None THEN None ELSE Some(GltfIndex_of(as_u64(i[1])[1]))

material_emissive_tex(mat) ==
    LET i == member(member(Some(mat), "emissiveTexture"), "index") IN
    IF i = None \/ as_u64(i[1]) = None THEN None ELSE Some(GltfIndex_of(as_u64(i[1])[1]))

get_srgb_texture_indices(doc) ==
    LET materials == get_list(doc, "materials") IN
    {t \in 0..UsizeMax : \E m \in 1..Len(materials) :
        \/ material_diffuse_tex(materials[m]) = Some(t)
        \/ material_emissive_tex(materials[m]) = Some(t)}

----------------------------------------------------------------------------
(* get_reencode_jobs (lib.rs).                                             *)

ImageHasNoSources == [kind |-> "ImageHasNoSources"]
ImageClaimedKtx2ButWasNot == [kind |-> "ImageClaimedKtx2ButWasNot"]
\* Error::Image(image::ImageError): no format recognized.
ImageError == [kind |-> "Image"]

\* 0xAB 0x4B 0x54 0x58 0x20 0x32 0x30 0xBB 0x0D 0x0A 0x1A 0x0A
Ktx2Signature == <<171, 75, 84, 88, 32, 50, 48, 187, 13, 10, 26, 10>>
\* The magic bytes image::guess_format knows, as far as the inputs go.
PngSignature == <<137, 80, 78, 71, 13, 10, 26, 10>>
JpegSignature == <<255, 216, 255>>

starts_with(data, prefix) ==
    Len(data) >= Len(prefix) /\ SubSeq(data, 1, Len(prefix)) = prefix

\* image::guess_format(&data)?.to_mime_type()
guess_format(data) ==
    IF starts_with(data, PngSignature) THEN Ok("image/png")
    ELSE IF starts_with(data, JpegSignature) THEN Ok("image/jpeg")
    ELSE Err(ImageError)

\* Input::get_gltf_index
get_gltf_index(doc, i, name) ==
    IF name \in DOMAIN doc THEN
        LET r == idx_within(i, name, Len(doc[name])) IN
        IF r.tag = "Err" THEN r
        ELSE IF r.ok = None THEN Ok(None)
        ELSE Ok(Some(doc[name][r.ok[1] + 1]))
    ELSE Ok(None)

ImageReencodeJob(data, mime, srgb, reencode_as, view_idx) ==
    [data |-> data, data_mime_type |-> mime, data_used_as_srgb |-> srgb,
     reencode_as |-> reencode_as, preexisting_buffer_view_idx |-> view_idx]

\* Params::default()
Basic == "Basic(Jpeg)"
Ktx == "Ktx { basis_compression_quality: None, transcoded_to_bc1_or_bc3: true }"

\* What a call of the closure lookup_old_img leaves: its result, the jobs
\* and the table from original image index to job index.
Looked(res, jobs, table) == [res |-> res, new_images |-> jobs, table |-> table]

\* A plausible slip: a job recorded at every call, the table not consulted.
lookup_old_img_noTable(images, jobs, table, old_img_idx, srgb, initial_data, mime, reencode_as) ==
    LET r == gltf_index_required(Len(images), old_img_idx, "images") IN
    IF r.tag = "Err" THEN Looked(r, jobs, table)
    ELSE Looked(Ok(GltfIndex_of(Len(jobs))),
                Append(jobs, ImageReencodeJob(initial_data, mime, srgb, reencode_as,
                                              images[r.ok + 1].buffer_view)),
                [k \in DOMAIN table \cup {old_img_idx} |->
                    IF k = old_img_idx THEN GltfIndex_of(Len(jobs)) ELSE table[k]])

\* The closure lookup_old_img: the job is built, with `?` on the image's
\* lookup, before it is pushed.
lookup_old_img(images, jobs, table, old_img_idx, srgb, initial_data, mime, reencode_as) ==
    IF old_img_idx \in DOMAIN table THEN Looked(Ok(table[old_img_idx]), jobs, table)
    ELSE LET new_img_idx == GltfIndex_of(Len(jobs))
             r == gltf_index_required(Len(images), old_img_idx, "images")
         IN  IF r.tag = "Err" THEN Looked(r, jobs, table)
             ELSE Looked(Ok(new_img_idx),
                         Append(jobs, ImageReencodeJob(initial_data, mime, srgb, reencode_as,
                                                       images[r.ok + 1].buffer_view)),
                         [k \in DOMAIN table \cup {old_img_idx} |->
                             IF k = old_img_idx THEN new_img_idx ELSE table[k]])

ImgSrc(data, mime) == [data |-> data, mime |-> mime]

\* The plain image of a texture: its bytes with its media type (the one it
\* declares, or the one guessed from its bytes).
plain_img_src(img, views, datas, map) ==
    {IF d.tag # "Ok" THEN d
     ELSE LET mime_type == IF img.mime_type # None THEN Ok(img.mime_type[1])
                           ELSE guess_format(d.ok)
          IN  IF mime_type.tag = "Err" THEN mime_type
              ELSE Ok(Some(ImgSrc(d.ok, mime_type.ok)))
     : d \in GltfImage_dump_data(img, views, datas, map)}

\* The compressed image of a texture: its bytes, which must start with the
\* KTX2 signature.
ktx_img_src(img, views, datas, map) ==
    {IF d.tag # "Ok" THEN d
     ELSE IF starts_with(d.ok, Ktx2Signature) THEN Ok(Some(ImgSrc(d.ok, "image/ktx2")))
     ELSE Err(ImageClaimedKtx2ButWasNot)
     : d \in GltfImage_dump_data(img, views, datas, map)}

\* let mut img_src = None; if let Some(img) = ... { } else if let Some(img) = ... { }
img_src_of(doc, views, datas, map, unoptimized_img, optimized_img) ==
    LET u == get_gltf_index(doc, unoptimized_img, "images") IN
    IF u.tag = "Err" THEN {u}
    ELSE IF u.ok # None THEN plain_img_src(u.ok[1], views, datas, map)
    ELSE LET o == get_gltf_index(doc, optimized_img, "images") IN
         IF o.tag = "Err" THEN {o}
         ELSE IF o.ok # None THEN ktx_img_src(o.ok[1], views, datas, map)
         ELSE {Ok(None)}

\* What a turn of the loop leaves: its result, the texture, the jobs and the
\* table.
Turn(res, tex, jobs, table) ==
    [res |-> res, tex |-> tex, new_images |-> jobs, table |-> table]

\* if let Some((initial_data, initial_data_mime_type)) = img_src { ... }
record_jobs(images, jobs, table, tex, srgb, unoptimized_img, optimized_img, img_src) ==
    LET l1 == lookup_old_img(images, jobs, table, unoptimized_img, srgb,
                             img_src.data, img_src.mime, Basic) IN
    IF l1.res.tag # "Ok" THEN Turn(l1.res, tex, l1.new_images, l1.table)
    ELSE LET tex1 == [tex EXCEPT !.source = l1.res.ok]
             l2 == lookup_old_img(images, l1.new_images, l1.table, optimized_img, srgb,
                                  img_src.data, img_src.mime, Ktx)
         IN  IF l2.res.tag # "Ok" THEN Turn(l2.res, tex1, l2.new_images, l2.table)
             ELSE LET set == set_texture_ktx_source(tex1, l2.res.ok) IN
                  IF set.tag # "Ok" THEN Turn(set, tex1, l2.new_images, l2.table)
                  ELSE Turn(Ok(<<>>), set.ok, l2.new_images, l2.table)

\* The body of `for (tex_idx, tex) in textures.iter().enumerate()`: the set
\* of ways a turn can end.
texture_turn(doc, datas, map, tex_idx, tex, jobs, table) ==
    LET images == get_list(doc, "images")
        views == get_list(doc, "bufferViews")
        data_used_as_srgb == GltfIndex_of(tex_idx) \in get_srgb_texture_indices(doc)
        unoptimized_img == tex.source
        optimized_img == IF texture_ktx_source(tex) # None THEN texture_ktx_source(tex)[1]
                         ELSE GltfIndex_UNDEFINED
    IN  {IF s.tag # "Ok" THEN Turn(s, tex, jobs, table)
         ELSE IF s.ok = None THEN Turn(Err(ImageHasNoSources), tex, jobs, table)
         ELSE record_jobs(images, jobs, table, tex, data_used_as_srgb,
                          unoptimized_img, optimized_img, s.ok[1])
         : s \in img_src_of(doc, views, datas, map, unoptimized_img, optimized_img)}

ReencodeJobs(new_textures, jobs) == [new_textures |-> new_textures, new_images |-> jobs]

\* let srgb_texture_indices = ...; let mut new_images = vec![];
\* let mut old_image_idx_to_new_image_idx = HashMap::new();
StartTextures ==
    /\ pc = "dump_buffers"
    /\ pos = Len(get_list(gltf_json, "buffers"))
    /\ new_images' = <<>>
    /\ old_image_idx_to_new_image_idx' = <<>>
    /\ pos' = 0
    /\ pc' = "textures"
    /\ UNCHANGED <<result, idxVars, bufVars, objVars, textures, binaries, packVars, docVars>>

\* A turn of the loop that runs to its end.
TextureOk ==
    /\ pc = "textures"
    /\ pos < Len(textures)
    /\ \E t \in texture_turn(gltf_json, buffer_datas, binaries, pos, textures[pos + 1],
                             new_images, old_image_idx_to_new_image_idx) :
          /\ t.res.tag = "Ok"
          /\ textures' = [textures EXCEPT ![pos + 1] = t.tex]
          /\ new_images' = t.new_images
          /\ old_image_idx_to_new_image_idx' = t.table
    /\ pos' = pos + 1
    /\ UNCHANGED <<pc, result, idxVars, bufVars, objVars, binaries, packVars, docVars>>

\* A turn of the loop that returns an error (`?`, `return Err(..)`) or panics.
TextureFail ==
    /\ pc = "textures"
    /\ pos < Len(textures)
    /\ \E t \in texture_turn(gltf_json, buffer_datas, binaries, pos, textures[pos + 1],
                             new_images, old_image_idx_to_new_image_idx) :
          /\ t.res.tag # "Ok"
          /\ result' = t.res
          /\ pc' = IF t.res.tag = "Panic" THEN "panicked" ELSE "returned"
          /\ textures' = [textures EXCEPT ![pos + 1] = t.tex]
          /\ new_images' = t.new_images
          /\ old_image_idx_to_new_image_idx' = t.table
    /\ pos' = pos + 1
    /\ UNCHANGED <<idxVars, bufVars, objVars, binaries, packVars, docVars>>

\* Ok(ReencodeJobs { new_textures: textures, new_images })
JobsReturn ==
    /\ pc = "textures"
    /\ pos = Len(textures)
    /\ result' = Ok(ReencodeJobs(textures, new_images))
    /\ pc' = "returned"
    /\ UNCHANGED <<idxVars, bufVars, objVars, jobVars, binaries, packVars, pos, docVars>>

----------------------------------------------------------------------------
(* SpecJobs: get_reencode_jobs over a document and a blob map.             *)

\* "a.png", "b.ktx2" and "c.ktx2": names of external blobs.
NameAPng == <<97, 46, 112, 110, 103>>
NameBKtx2 == <<98, 46, 107, 116, 120, 50>>
NameCKtx2 == <<99, 46, 107, 116, 120, 50>>

\* Two PNG files, a KTX2 file, and a file whose twelfth byte is not the
\* signature's (each cut down to its signature and one more byte).
BlobPngA == PngSignature \o <<1>>
BlobPngB == PngSignature \o <<2>>
BlobKtx2 == Ktx2Signature \o <<3>>
BlobNotKtx2 == SubSeq(Ktx2Signature, 1, 11) \o <<11, 4>>

JobBlobOf(key) ==
    IF key = None THEN BlobPngB
    ELSE IF key = Some(NameAPng) THEN BlobPngA
    ELSE IF key = Some(NameBKtx2) THEN BlobKtx2
    ELSE BlobNotKtx2

\* The blob map with every file and the default payload, and without the
\* default payload.
JobBlobMaps ==
    {[k \in keys |-> JobBlobOf(k)] :
        keys \in {{None, Some(NameAPng), Some(NameBKtx2), Some(NameCKtx2)},
                  {Some(NameAPng), Some(NameBKtx2), Some(NameCKtx2)}}}

\* The images of the documents: 0 "a.png" without a media type, 1 "b.ktx2",
\* 2 "c.ktx2" (not a KTX2 file), 3 a PNG in bufferView 0.
JobImages ==
    <<GltfImage(Some(NameAPng), None, GltfIndex_UNDEFINED),
      GltfImage(Some(NameBKtx2), None, GltfIndex_UNDEFINED),
      GltfImage(Some(NameCKtx2), None, GltfIndex_UNDEFINED),
      GltfImage(None, Some("image/png"), GltfIndex_of(0))>>

\* The bytes the image at an original index resolves to.
JobImageBytes ==
    [i \in 0..3 |-> IF i = 0 THEN BlobPngA ELSE IF i = 1 THEN BlobKtx2
                    ELSE IF i = 2 THEN BlobNotKtx2 ELSE BlobPngB]

\* The textures of the documents: a `source` that is unset, 0, 2, 3 or
\* out of range, with no extension or with KHR_texture_basisu naming image
\* 0, 1 or 2.
JobTextures ==
    {GltfTexture(src, ext) :
        src \in {GltfIndex_UNDEFINED, GltfIndex_of(0), GltfIndex_of(2), GltfIndex_of(3),
                 GltfIndex_of(Len(JobImages) + 1)},
        ext \in {JNull} \cup {JObject([k \in {"KHR_texture_basisu"} |-> KtxExtension(n)]) :
                                 n \in 0..2}}

\* Materials: texture 0 is a base colour, texture 2 is emissive.
JobMaterials ==
    <<JObject([k \in {"pbrMetallicRoughness"} |->
          JObject([j \in {"baseColorTexture"} |-> JObject([i \in {"index"} |-> JNumber(0)])])]),
      JObject([k \in {"emissiveTexture"} |-> JObject([i \in {"index"} |-> JNumber(2)])])>>

JobDocument(texs, keys) ==
    [k \in keys |->
        IF k = "textures" THEN texs
        ELSE IF k = "images" THEN JobImages
        ELSE IF k = "bufferViews" THEN <<BareView(0, Len(BlobPngB))>>
        ELSE IF k = "buffers" THEN <<GltfBuffer(None, Len(BlobPngB))>>
        ELSE JobMaterials]

JobDocuments ==
    {JobDocument(texs, keys) :
        texs \in SeqsUpTo(JobTextures, MaxTextures),
        keys \in {{"textures", "images", "bufferViews", "buffers", "materials"},
                  {"textures", "bufferViews", "buffers", "materials"}}}

InitJobs ==
    /\ pc = "dump_buffers"
    /\ result = NoResult
    /\ gltf_json \in JobDocuments
    /\ doc0 = gltf_json
    /\ binaries \in JobBlobMaps
    /\ textures = get_list(gltf_json, "textures")
    /\ new_images = <<>>
    /\ old_image_idx_to_new_image_idx = <<>>
    /\ buffer_datas = <<>>
    /\ trace = <<>>
    /\ pos = 0
    /\ IdleIndex /\ IdleBuffer /\ IdlePack /\ IdleObj

NextJobs ==
    DumpBufferOk \/ DumpBufferFail \/ StartTextures \/ TextureOk \/ TextureFail \/ JobsReturn

SpecJobs == InitJobs /\ [][NextJobs]_vars

----------------------------------------------------------------------------
(* Claims about get_reencode_jobs, under SpecJobs.                         *)

\* The textures as the document gave them, and the image indices they name.
OrigTextures == get_list(gltf_json, "textures")
PlainRef(tex) == tex.source
KtxRef(tex) ==
    IF texture_ktx_source(tex) = None THEN GltfIndex_UNDEFINED ELSE texture_ktx_source(tex)[1]
Referenced ==
    {i \in 0..(UsizeMax - 1) :
        \E t \in 1..Len(OrigTextures) :
            PlainRef(OrigTextures[t]) = i \/ KtxRef(OrigTextures[t]) = i}

JobsSucceeded == pc = "returned" /\ result.tag = "Ok" /\ "new_images" \in DOMAIN result.ok

\* C13: after get_reencode_jobs succeeds, textures whose `source` named the
\* same original image have the same rewritten `source`; the table gives
\* every original image a texture names one job of its own, every job is
\* the job of one of them, and there are as many jobs as distinct original
\* images named.
C13_OneJobPerImage ==
    JobsSucceeded =>
        LET new == result.ok.new_textures
            jobs == result.ok.new_images
            table == old_image_idx_to_new_image_idx
        IN  /\ \A a, b \in 1..Len(OrigTextures) :
                  PlainRef(OrigTextures[a]) = PlainRef(OrigTextures[b])
                      => new[a].source = new[b].source
            /\ DOMAIN table = Referenced
            /\ \A t \in 1..Len(OrigTextures) :
                  /\ new[t].source = table[PlainRef(OrigTextures[t])]
                  /\ KtxRef(new[t]) = table[KtxRef(OrigTextures[t])]
            /\ \A i, j \in Referenced : i # j => table[i] # table[j]
            /\ {table[i] : i \in Referenced} = 0..(Len(jobs) - 1)
            /\ Len(jobs) = Cardinality(Referenced)

\* get_reencode_jobs succeeded for two textures with the same `source` and
\* different compressed images: three jobs.
C13_Witness ==
    /\ JobsSucceeded
    /\ Len(OrigTextures) = 2
    /\ PlainRef(OrigTextures[1]) = PlainRef(OrigTextures[2])
    /\ KtxRef(OrigTextures[1]) # KtxRef(OrigTextures[2])
    /\ Len(result.ok.new_images) = 3

\* The run got as far as the loop over the textures.
BuffersResolved == Len(buffer_datas) = Len(get_list(gltf_json, "buffers"))
JobsEnded == pc \in {"returned", "panicked"} /\ BuffersResolved

\* An index that resolves to an image of the document.
ResolvesToImage(i) == "images" \in DOMAIN gltf_json /\ i < Len(JobImages)

\* C14: when the compressed-image reference of the first texture resolves
\* to an image whose first 12 bytes are not the KTX2 signature (and its
\* plain `source` is unset or resolves to a PNG), get_reencode_jobs fails
\* with ImageClaimedKtx2ButWasNot.
C14_NotKtx2Refused ==
    (/\ JobsEnded
     /\ Len(OrigTextures) >= 1
     /\ ResolvesToImage(KtxRef(OrigTextures[1]))
     /\ ~starts_with(JobImageBytes[KtxRef(OrigTextures[1])], Ktx2Signature)
     /\ PlainRef(OrigTextures[1]) \in {GltfIndex_UNDEFINED, GltfIndex_of(0), GltfIndex_of(3)})
        => result = Err(ImageClaimedKtx2ButWasNot)

\* C15: after get_reencode_jobs succeeds, the job of every original image
\* index carries the bytes the image at that index resolves to.
C15_JobCarriesOwnImage ==
    JobsSucceeded =>
        \A i \in DOMAIN old_image_idx_to_new_image_idx :
            result.ok.new_images[old_image_idx_to_new_image_idx[i] + 1].data
                = JobImageBytes[i]

\* C16: for a single texture with only a `source` that resolves to a PNG,
\* or with only a compressed image that is a KTX2 file, get_reencode_jobs
\* succeeds with one job.
C16_OneReferenceIsEnough ==
    (/\ JobsEnded
     /\ Len(OrigTextures) = 1
     /\ "images" \in DOMAIN gltf_json
     /\ \/ /\ PlainRef(OrigTextures[1]) \in {GltfIndex_of(0), GltfIndex_of(3)}
           /\ texture_ktx_source(OrigTextures[1]) = None
        \/ /\ PlainRef(OrigTextures[1]) = GltfIndex_UNDEFINED
           /\ KtxRef(OrigTextures[1]) = GltfIndex_of(1))
        => (result.tag = "Ok" /\ Len(result.ok.new_images) = 1)

====
